---- MODULE Spec2Model ----
(***************************************************************************)
(* A model of the sonix-api backend: the Spotify request wrapper with its  *)
(* refresh-and-retry cycle, the OAuth callback / profile / logout          *)
(* handlers, and the playlist handlers (generate, delete track, push       *)
(* draft) working on the User and Playlist collections.                    *)
(*                                                                         *)
(* Every `await` of a handler is a point where another request may run, so *)
(* each handler is a sequence of actions, one per awaited operation.       *)
(* Upstream (provider) answers are chosen nondeterministically.            *)
(*                                                                         *)
(* Persistence follows Mongoose's document semantics: save() sends only    *)
(* the modified paths; an array $push increments the version key __v,      *)
(* a $set of an array (a splice, or a new value for an element's array     *)
(* field) is sent with the loaded __v in the query and fails with a        *)
(* VersionError when the stored __v differs; findByIdAndUpdate touches     *)
(* only the named path and no version.                                     *)
(***************************************************************************)
EXTENDS Integers, Sequences, FiniteSets, TLC

VARIABLES
    serial,     \* (history) the number of drafts persisted so far
    users,      \* the User collection: user id -> document
    playlists,  \* the Playlist collection (published history), in save order
    reqs,       \* the HTTP requests being handled: slot -> request state
    clock,      \* Date.now()
    world       \* what the provider's catalogue answers on success

vars == <<users, playlists, reqs, clock, world, serial>>

---------------------------------------------------------------------------
(* Bounds of the model *)

MaxUsers == 1
MaxReqs == 1
MaxConc == 2
MaxClock == 2
MaxTokens == 2
MaxPublished == 2
MaxDrafts == 2
MaxVersion == 2
MaxUris == 250
MaxCand == 4

UserIds == 1..MaxUsers
Tokens == 1..MaxTokens
ReqIds == 1..MaxReqs            \* the requests of the specifications Spec, SpecGen
ConcIds == 1..MaxConc           \* the requests of SpecConc
Slots == ReqIds \cup ConcIds

---------------------------------------------------------------------------
(* Values *)

\* A token is a positive number; 0 is an absent token (undefined or "").
NoToken == 0

\* HTTP statuses an upstream attempt can answer with.
UpstreamStatuses == {200, 401, 500}

\* src/models/User.ts: the persisted fields the handlers use.
\*   exists   the document is in the collection
\*   access   spotify.accessToken      refresh  spotify.refreshToken
\*   drafts   spotify.playlists        v        the version key __v
\*   session  the app's own accessToken/refreshToken are set
NoUser ==
    [exists |-> FALSE, access |-> NoToken, refresh |-> NoToken, drafts |-> <<>>,
     v |-> 0, session |-> FALSE]

\* One invocation of spotifyRequest (or of getMe's inline refresh cycle).
\*   st         none | first | refresh | persist | retry | ok | err
\*   inline     TRUE for getMe's own cycle
\*   uid        opts.userId         canRefresh  opts.refreshToken && opts.userId
\*   attempts   requests sent for the original call
\*   refreshes  refresh_token exchanges sent
\*   first      status of the first attempt     second  status of the retry
\*   newTok     the access token the refresh issued
\*   wrote      the new token was written to the user document
\*   stale      (history) after that, another writer replaced the stored token
\*   ret        which attempt's response is returned (1 or 2)
\*   err        the status of the error thrown (0: a non-HTTP error)
NoCall ==
    [st |-> "none", inline |-> FALSE, uid |-> 0, canRefresh |-> FALSE,
     attempts |-> 0, refreshes |-> 0, first |-> 0, second |-> 0, newTok |-> NoToken,
     wrote |-> FALSE, stale |-> FALSE, ret |-> 0, err |-> 0]

NewCall(uid, refreshTok, inl) ==
    [NoCall EXCEPT !.st = "first", !.inline = inl, !.uid = uid,
                   !.canRefresh = (refreshTok # NoToken /\ uid # 0)]

CallSlots == {"cA", "cB", "cO"}

CallFinished(c) == c.st \in {"ok", "err"}
CallRunning(c) == c.st \in {"first", "refresh", "persist", "retry"}

\* A draft of spotify.playlists.  A track is its id, its uri is that id.
\*   id      `draft_${Date.now()}`, the clock reading
\*   serial  (history) the order of creation, to tell apart drafts of one id
NoDraft == [id |-> 0, serial |-> 0, tracks |-> <<>>, status |-> "none"]

\* One HTTP request being handled.
\*   kind    idle | callback | me | logout | generate | delete | push
\*   pc      the await the handler is at; "done" once the response is sent
\*   auth    the session token presented: "none", "bad" (fails verification)
\*           or "ok" (a token signed for user uid)
\*   uid     req.userId, 0 when not set
\*   status  the HTTP status of the response, 0 before it is sent
\*   u*      the user document as loaded by this request: uTok says whether
\*           spotify.accessToken is set (its value only goes into the bearer
\*           header), uRef is spotify.refreshToken
\*   personal  how the two personalization fetches stood when Promise.all
\*           settled: <<top tracks, top artists>>, each "ok", "err" or "run"
IdleReq ==
    [kind |-> "idle", pc |-> "idle", auth |-> "none", uid |-> 0, status |-> 0,
     entered |-> FALSE,
     draftId |-> 0, trackId |-> 0, mood |-> "", genres |-> <<>>, count |-> 0,
     uFound |-> FALSE, uTok |-> FALSE, uRef |-> NoToken, uV |-> 0, uDrafts |-> <<>>,
     tok |-> NoToken, email |-> 0,
     appToken |-> FALSE, seeds |-> <<>>, gi |-> 0, cand |-> <<>>, pool |-> <<>>,
     personal |-> <<>>, fids |-> {}, filtered |-> <<>>, draft |-> NoDraft,
     idx |-> 0, newTracks |-> <<>>, plId |-> 0, i |-> 0, uris |-> <<>>, batches |-> <<>>,
     cA |-> NoCall, cB |-> NoCall, cO |-> NoCall]

\* res.status(code).json(...): the response is sent and the handler returns.
\* Its locals are gone; what stays is the request, the response (status and
\* draft), and a call left in flight by Promise.all.
Respond(q, code) ==
    [IdleReq EXCEPT !.kind = q.kind, !.pc = "done", !.status = code, !.auth = q.auth,
                    !.uid = q.uid, !.entered = q.entered, !.mood = q.mood,
                    !.genres = q.genres, !.count = q.count,
                    !.draftId = q.draftId, !.trackId = q.trackId,
                    !.pool = q.pool, !.draft = q.draft, !.cO = q.cO]

\* The user document as findById returns it, copied into the request.
LoadUser(q, u) ==
    IF u \in UserIds /\ users[u].exists
    THEN [q EXCEPT !.uFound = TRUE, !.uTok = (users[u].access # NoToken), !.uRef = users[u].refresh,
                   !.uV = users[u].v, !.uDrafts = users[u].drafts]
    ELSE [q EXCEPT !.uFound = FALSE]

---------------------------------------------------------------------------
(* The pure parts of generatePlaylist *)

\* Program constants of controllers/playlists.ts.
SeedGenreCap == 2
ArtistTopCap == 5
FeatureCap == 100
BatchSize == 100

Min(a, b) == IF a <= b THEN a ELSE b

\* s.slice(0, n) for n >= 0.
Take(s, n) == SubSeq(s, 1, Min(n, Len(s)))

\* s.slice(lo, hi) for 0 <= lo, 0-based and hi exclusive.
Slice(s, lo, hi) == SubSeq(s, lo + 1, Min(hi, Len(s)))

InSeq(x, s) == \E i \in 1..Len(s) : s[i] = x

\* g.toLowerCase(), on the genre tags the requests use.
Lower(g) ==
    CASE g = "RnB" -> "rnb"
      [] g = "Rock" -> "rock"
      [] OTHER -> g

\* genreMap[g.toLowerCase()] || g.toLowerCase()
NormalizeGenre(g) ==
    LET l == Lower(g) IN
    CASE l = "rnb" -> "r-n-b"
      [] l = "hiphop" -> "hip-hop"
      [] OTHER -> l

\* genres.map(...).slice(0, 2)
SeedGenres(genres) ==
    Take([i \in 1..Len(genres) |-> NormalizeGenre(genres[i])], SeedGenreCap)

\* moodMap[mood.toLowerCase()] || {} : the constraints, with the bounds in
\* tenths (0.5 is 5).
MoodTarget(mood) ==
    CASE mood = "chill" -> {[attr |-> "energy", min |-> 0, max |-> 5],
                            [attr |-> "danceability", min |-> 4, max |-> 6],
                            [attr |-> "valence", min |-> 4, max |-> 6]}
      [] mood = "sad" -> {[attr |-> "energy", min |-> 0, max |-> 3],
                          [attr |-> "valence", min |-> 0, max |-> 4]}
      [] mood = "party" -> {[attr |-> "energy", min |-> 7, max |-> 10],
                            [attr |-> "danceability", min |-> 7, max |-> 10],
                            [attr |-> "valence", min |-> 6, max |-> 10]}
      [] mood = "focus" -> {[attr |-> "energy", min |-> 3, max |-> 6],
                            [attr |-> "instrumentalness", min |-> 5, max |-> 10]}
      [] mood = "hype" -> {[attr |-> "energy", min |-> 8, max |-> 10],
                           [attr |-> "valence", min |-> 7, max |-> 10]}
      [] OTHER -> {}

\* An audio-features record the provider holds, by name; the values are in
\* tenths and -1 stands for a value that is not a number.  "null" names a
\* null entry of the answer: no record.
NotANumber == -1
Features(name) ==
    CASE name = "calm" -> [energy |-> 3, danceability |-> 5, valence |-> 5,
                           instrumentalness |-> 0]
      [] name = "loud" -> [energy |-> 9, danceability |-> 8, valence |-> 8,
                           instrumentalness |-> 0]
      [] OTHER -> [energy |-> 3, danceability |-> NotANumber, valence |-> 5,
                   instrumentalness |-> 0]
FeatureNames == {"calm", "loud", "partial", "null"}

\* Dedupe: the first track of each id, in order; a track without an id
\* (id 0) is dropped.
\* The loop over the candidates s in order, acc being the values of byId so
\* far.  The list is walked as its first half and then its second half, so
\* that the evaluation stays shallow on long lists.
RECURSIVE DedupeFrom(_, _)
DedupeFrom(s, acc) ==
    IF Len(s) = 0 THEN acc
    ELSE IF Len(s) = 1
         THEN IF s[1] # 0 /\ ~InSeq(s[1], acc) THEN Append(acc, s[1]) ELSE acc
         ELSE LET h == Len(s) \div 2
                  left == DedupeFrom(SubSeq(s, 1, h), acc)
              IN IF Len(left) >= 0
                 THEN DedupeFrom(SubSeq(s, h + 1, Len(s)), left) ELSE acc

\* (mutant) the last track of each id stays, not the first.
Dedupe_KeepLast(s) ==
    LET Last(i) == s[i] # 0 /\ \A j \in (i + 1)..Len(s) : s[j] # s[i]
        idx == SelectSeq([i \in 1..Len(s) |-> i], Last)
    IN [k \in 1..Len(idx) |-> s[idx[k]]]

\* (mutant) no deduplication: every candidate with an id stays.
Dedupe_KeepAll(s) == LET HasId(t) == t # 0 IN SelectSeq(s, HasId)

Dedupe(s) == DedupeFrom(s, <<>>)

\* featuresMap: the ids of poolIds (the first 100 of the pool) for which the
\* answer carries a record.
FeaturesMap(pool, feat) ==
    {t \in {pool[i] : i \in 1..Min(FeatureCap, Len(pool))} : feat[t] # "null"}

\* (mutant) a track without a record is kept only when the mood has no
\* constraints.
Passes_MissingFails(t, fids, feat, target) ==
    IF target = {} THEN TRUE
    ELSE /\ t \in fids
         /\ \A c \in target :
               LET v == Features(feat[t])[c.attr] IN
               v # NotANumber /\ v >= c.min /\ v <= c.max

\* The filter's predicate for track t: fids are the keys of featuresMap.
Passes(t, fids, feat, target) ==
    IF t \notin fids \/ target = {} THEN TRUE
    ELSE \A c \in target :
            LET v == Features(feat[t])[c.attr] IN
            v # NotANumber /\ v >= c.min /\ v <= c.max

\* candidateTracks.filter(...)
FilterPool(pool, fids, feat, target) ==
    LET Keep(t) == Passes(t, fids, feat, target) IN SelectSeq(pool, Keep)

\* (mutant) no fallback: the filtered set is used even when empty.
ChoosePool_NoFallback(filtered, pool) == filtered

\* filtered.length ? filtered : candidateTracks
ChoosePool(filtered, pool) == IF Len(filtered) > 0 THEN filtered ELSE pool

\* pool.sort(() => Math.random() - 0.5).slice(0, count): every arrangement of
\* min(count, length) distinct positions of the pool is a possible outcome.
RECURSIVE Arrangements(_, _)
Arrangements(S, k) ==
    IF k = 0 \/ S = {} THEN {<<>>}
    ELSE UNION {{<<x>> \o a : a \in Arrangements(S \ {x}, k - 1)} : x \in S}

Selections(pool, count) ==
    {[k \in 1..Len(a) |-> pool[a[k]]] :
        a \in Arrangements(1..Len(pool), Min(count, Len(pool)))}

\* The provider's catalogue: what each endpoint answers when it succeeds.
\*   top        /me/top/tracks items (track ids; 0 is an item without id)
\*   artists    the number of /me/top/artists items
\*   artistTop  /artists/{id}/top-tracks, the same for every artist
\*   search     /search items, by seed genre
\*   feat       /audio-features: track id -> the name of its record
World(top, artists, artistTop, searchPop, searchOther, feat) ==
    [top |-> top, artists |-> artists, artistTop |-> artistTop,
     searchPop |-> searchPop, searchOther |-> searchOther, feat |-> feat]

SearchItems(w, genre) == IF genre = "pop" THEN w.searchPop ELSE w.searchOther

---------------------------------------------------------------------------
(* spotifyRequest: the wrapper with auto-refresh *)

\* (mutant) refresh on any failure.
ShouldRefresh_AnyFailure(c, status) ==
    IF c.inline THEN status # 200 ELSE status # 200 /\ c.canRefresh

\* The catch of the first attempt: refresh only on 401 with a refresh token
\* and a user id (getMe's inline cycle tests the status alone).
ShouldRefresh(c, status) ==
    IF c.inline THEN status = 401 ELSE status = 401 /\ c.canRefresh

\* The first attempt answered with status o.
AfterFirst(c, o) ==
    LET c1 == [c EXCEPT !.attempts = @ + 1, !.first = o] IN
    IF o = 200 THEN [c1 EXCEPT !.st = "ok", !.ret = 1]
    ELSE IF ShouldRefresh(c, o) THEN [c1 EXCEPT !.st = "refresh"]
    ELSE [c1 EXCEPT !.st = "err", !.err = o]

\* The refresh exchange answered: ok with access_token tok (NoToken when the
\* answer carries none), or not ok.
AfterRefresh(c, ok, tok) ==
    LET c1 == [c EXCEPT !.refreshes = @ + 1] IN
    IF ~ok THEN [c1 EXCEPT !.st = "err", !.err = 400]
    ELSE IF tok = NoToken /\ ~c.inline THEN [c1 EXCEPT !.st = "err", !.err = 0]
    ELSE [c1 EXCEPT !.st = "persist", !.newTok = tok]

\* (mutant) a 401 on the retry starts another refresh.
AfterRetry_RefreshAgain(c, o) ==
    LET c1 == [c EXCEPT !.attempts = @ + 1, !.second = o] IN
    IF o = 200 THEN [c1 EXCEPT !.st = "ok", !.ret = 2]
    ELSE IF o = 401 THEN [c1 EXCEPT !.st = "refresh"]
    ELSE [c1 EXCEPT !.st = "err", !.err = o]

\* The retry answered with status o: whatever it is, the call ends.
AfterRetry(c, o) ==
    LET c1 == [c EXCEPT !.attempts = @ + 1, !.second = o] IN
    IF o = 200 THEN [c1 EXCEPT !.st = "ok", !.ret = 2]
    ELSE [c1 EXCEPT !.st = "err", !.err = o]

\* (mutant) the new token is used for the retry but never stored.
WriteAccessToken_NotStored(us, u, tok) == us

\* User.findByIdAndUpdate(userId, {"spotify.accessToken": tok}), and getMe's
\* user.spotify.accessToken = tok; user.save(): only that path is written.
WriteAccessToken(us, u, tok) ==
    IF u \in UserIds /\ us[u].exists THEN [us EXCEPT ![u].access = tok] ELSE us

\* (history) user u's stored access token is replaced: the calls that wrote
\* it before are marked.
MarkStale(rq, u) ==
    LET Mark(c) == IF c.wrote /\ c.uid = u THEN [c EXCEPT !.stale = TRUE] ELSE c IN
    [r \in DOMAIN rq |->
        [rq[r] EXCEPT !.cA = Mark(@), !.cB = Mark(@), !.cO = Mark(@)]]

CallFirst(r, s) ==
    /\ reqs[r][s].st = "first"
    /\ \E o \in UpstreamStatuses :
          reqs' = [reqs EXCEPT ![r][s] = AfterFirst(@, o)]
    /\ UNCHANGED <<users, playlists, clock, world, serial>>

CallRefresh(r, s) ==
    /\ reqs[r][s].st = "refresh"
    /\ \/ /\ reqs[r][s].canRefresh
          /\ \E t \in Tokens :
                reqs' = [reqs EXCEPT ![r][s] = AfterRefresh(@, TRUE, t)]
       \/ \E ok \in BOOLEAN :
             reqs' = [reqs EXCEPT ![r][s] = AfterRefresh(@, ok, NoToken)]
    /\ UNCHANGED <<users, playlists, clock, world, serial>>

CallPersist(r, s) ==
    /\ reqs[r][s].st = "persist"
    /\ \/ /\ users' = WriteAccessToken(users, reqs[r][s].uid, reqs[r][s].newTok)
          /\ reqs' = [MarkStale(reqs, reqs[r][s].uid) EXCEPT
                          ![r][s].st = "retry", ![r][s].wrote = TRUE,
                          ![r][s].stale = FALSE]
       \/ /\ reqs' = [reqs EXCEPT ![r][s].st = "err", ![r][s].err = 0]
          /\ UNCHANGED users
    /\ UNCHANGED <<playlists, clock, world, serial>>

CallRetry(r, s) ==
    /\ reqs[r][s].st = "retry"
    /\ \E o \in UpstreamStatuses :
          reqs' = [reqs EXCEPT ![r][s] = AfterRetry(@, o)]
    /\ UNCHANGED <<users, playlists, clock, world, serial>>

---------------------------------------------------------------------------
(* authMiddleware and the routes *)

\* middleware/auth.ts: the status the middleware answers with, 0 when it
\* calls next().
AuthMiddleware(auth) ==
    IF auth = "none" THEN 401
    ELSE IF auth = "bad" THEN 403
    ELSE 0

\* The routes that mount authMiddleware before the handler.
Guarded(kind) == kind \in {"me", "logout", "generate", "delete", "push"}

\* A request arrives: the middleware runs, then the handler up to its first
\* await.  q carries the request's kind and input.
Arrive(q) ==
    LET code == IF Guarded(q.kind) THEN AuthMiddleware(q.auth) ELSE 0 IN
    IF code # 0 THEN Respond([q EXCEPT !.uid = 0], code)
    ELSE [q EXCEPT !.entered = TRUE, !.pc = "start"]

---------------------------------------------------------------------------
(* controllers/auth.ts *)

\* spotifyCallback: exchange the code for the provider's token pair.
CallbackToken(r) ==
    /\ reqs[r].kind = "callback" /\ reqs[r].pc = "start"
    /\ \/ \E t \in Tokens :
             reqs' = [reqs EXCEPT ![r].tok = t, ![r].pc = "cb_profile"]
       \/ reqs' = [reqs EXCEPT ![r] = Respond(@, 400)]
    /\ UNCHANGED <<users, playlists, clock, world, serial>>

\* spotifyCallback: fetch the profile; its email names the local user.
CallbackProfile(r) ==
    /\ reqs[r].kind = "callback" /\ reqs[r].pc = "cb_profile"
    /\ \/ \E e \in UserIds :
             reqs' = [reqs EXCEPT ![r].email = e, ![r].pc = "cb_find"]
       \/ reqs' = [reqs EXCEPT ![r] = Respond(@, 400)]
    /\ UNCHANGED <<users, playlists, clock, world, serial>>

\* spotifyCallback: User.findOne({email}).
CallbackFind(r) ==
    /\ reqs[r].kind = "callback" /\ reqs[r].pc = "cb_find"
    /\ reqs' = [reqs EXCEPT ![r] = [LoadUser(@, reqs[r].email) EXCEPT !.pc = "cb_upsert"]]
    /\ UNCHANGED <<users, playlists, clock, world, serial>>

\* spotifyCallback: create the user, or overwrite user.spotify and save.
\* Assigning the nested object either keeps the playlists path or resets it
\* (the Mongoose version decides); a reset is a $set of the array and is
\* versioned.
CallbackUpsert(r) ==
    LET q == reqs[r]
        u == q.email
    IN
    /\ q.kind = "callback" /\ q.pc = "cb_upsert"
    /\ \/ /\ ~q.uFound /\ ~users[u].exists
          /\ users' = [users EXCEPT ![u] =
                 [NoUser EXCEPT !.exists = TRUE, !.access = q.tok, !.refresh = 1]]
          /\ reqs' = [reqs EXCEPT ![r].pc = "cb_session", ![r].uid = u]
       \/ /\ ~q.uFound /\ users[u].exists      \* duplicate email: create throws
          /\ reqs' = [reqs EXCEPT ![r] = Respond(@, 400)]
          /\ UNCHANGED users
       \/ /\ q.uFound
          /\ users' = [users EXCEPT ![u].access = q.tok, ![u].refresh = 1]
          /\ reqs' = [MarkStale(reqs, u) EXCEPT ![r].pc = "cb_session", ![r].uid = u]
       \/ /\ q.uFound /\ users[u].v = q.uV /\ users[u].v < MaxVersion
          /\ users' = [users EXCEPT ![u].access = q.tok, ![u].refresh = 1,
                                    ![u].drafts = <<>>, ![u].v = @ + 1]
          /\ reqs' = [MarkStale(reqs, u) EXCEPT ![r].pc = "cb_session", ![r].uid = u]
       \/ /\ q.uFound /\ users[u].v # q.uV     \* VersionError on the reset
          /\ reqs' = [reqs EXCEPT ![r] = Respond(@, 400)]
          /\ UNCHANGED users
    /\ UNCHANGED <<playlists, clock, world, serial>>

\* spotifyCallback: sign the app tokens, save them, set the cookie.
CallbackSession(r) ==
    /\ reqs[r].kind = "callback" /\ reqs[r].pc = "cb_session"
    /\ users' = [users EXCEPT ![reqs[r].uid].session = TRUE]
    /\ reqs' = [reqs EXCEPT ![r] = Respond(@, 200)]
    /\ UNCHANGED <<playlists, clock, world, serial>>

\* getMe: User.findById, then the first profile fetch is sent.
MeLoad(r) ==
    /\ reqs[r].kind = "me" /\ reqs[r].pc = "start"
    /\ LET q == LoadUser(reqs[r], reqs[r].uid) IN
          reqs' = [reqs EXCEPT ![r] =
              IF ~q.uFound THEN Respond(q, 404)
              ELSE [q EXCEPT !.pc = "me_wait", !.cA = NewCall(q.uid, q.uRef, TRUE)]]
    /\ UNCHANGED <<users, playlists, clock, world, serial>>

\* getMe: the profile (after at most one refresh and retry) or a 500.
MeDone(r) ==
    /\ reqs[r].kind = "me" /\ reqs[r].pc = "me_wait"
    /\ CallFinished(reqs[r].cA)
    /\ reqs' = [reqs EXCEPT ![r] = Respond(@, IF reqs[r].cA.st = "ok" THEN 200 ELSE 500)]
    /\ UNCHANGED <<users, playlists, clock, world, serial>>

\* logout: User.findById.
LogoutLoad(r) ==
    /\ reqs[r].kind = "logout" /\ reqs[r].pc = "start"
    /\ LET q == LoadUser(reqs[r], reqs[r].uid) IN
          reqs' = [reqs EXCEPT ![r] =
              IF ~q.uFound THEN Respond(q, 404) ELSE [q EXCEPT !.pc = "lo_save"]]
    /\ UNCHANGED <<users, playlists, clock, world, serial>>

\* logout: clear the app tokens, save, clear the cookie.
LogoutSave(r) ==
    /\ reqs[r].kind = "logout" /\ reqs[r].pc = "lo_save"
    /\ users' = [users EXCEPT ![reqs[r].uid].session = FALSE]
    /\ reqs' = [reqs EXCEPT ![r] = Respond(@, 200)]
    /\ UNCHANGED <<playlists, clock, world, serial>>

---------------------------------------------------------------------------
(* controllers/playlists.ts: generatePlaylist *)

\* The search loop starts: one spotifyRequest per seed genre.
StartSearch(q) ==
    [q EXCEPT !.pc = "g_search", !.gi = 1, !.cA = NewCall(q.uid, q.uRef, FALSE),
              !.cB = NoCall]

\* User.findById (when req.userId is set); with a user token the two
\* personalization fetches are sent together (Promise.all).
GenLoad(r) ==
    /\ reqs[r].kind = "generate" /\ reqs[r].pc = "start"
    /\ LET q0 == IF reqs[r].uid # 0 THEN LoadUser(reqs[r], reqs[r].uid) ELSE reqs[r]
           q == [q0 EXCEPT !.seeds = SeedGenres(q0.genres)]
       IN reqs' = [reqs EXCEPT ![r] =
              IF ~q.uTok THEN [q EXCEPT !.pc = "g_app"]
              ELSE [q EXCEPT !.pc = "g_top",
                             !.cA = NewCall(q.uid, q.uRef, FALSE),
                             !.cB = NewCall(q.uid, q.uRef, FALSE)]]
    /\ UNCHANGED <<users, playlists, clock, world, serial>>

\* getAppAccessToken: the client-credentials token, or the request fails.
GenAppToken(r) ==
    /\ reqs[r].kind = "generate" /\ reqs[r].pc = "g_app"
    /\ \/ reqs' = [reqs EXCEPT ![r] = StartSearch([@ EXCEPT !.appToken = TRUE])]
       \/ reqs' = [reqs EXCEPT ![r] = Respond(@, 500)]
    /\ UNCHANGED <<users, playlists, clock, world, serial>>

\* What the personalization step contributes once Promise.all settles: cA is
\* the top-tracks fetch, cB the top-artists fetch.  The top tracks are pushed
\* after the await, so only when both fetches succeeded.
PersonalTracks(a, b, w) ==
    IF a.st = "ok" /\ b.st = "ok" THEN w.top ELSE <<>>

Settled(c) == IF CallFinished(c) THEN c.st ELSE "run"

\* Promise.all settles: both fulfilled, or the first rejection (the other
\* fetch, if still in flight, runs on unobserved in slot cO).
GenPersonal(r) ==
    LET q == reqs[r]
        a == q.cA
        b == q.cB
        orphan == IF a.st = "err" /\ CallRunning(b) THEN b
                  ELSE IF b.st = "err" /\ CallRunning(a) THEN a ELSE NoCall
        q1 == [q EXCEPT !.cand = PersonalTracks(a, b, world), !.cO = orphan,
                        !.personal = <<Settled(a), Settled(b)>>]
    IN
    /\ q.kind = "generate" /\ q.pc = "g_top"
    /\ (a.st = "ok" /\ b.st = "ok") \/ a.st = "err" \/ b.st = "err"
    /\ reqs' = [reqs EXCEPT ![r] =
          IF a.st = "ok" /\ b.st = "ok" /\ world.artists > 0
          THEN [q1 EXCEPT !.pc = "g_artist", !.gi = 1,
                          !.cA = NewCall(0, NoToken, FALSE), !.cB = NoCall]
          ELSE StartSearch(q1)]
    /\ UNCHANGED <<users, playlists, clock, world, serial>>

\* fetchArtistTopTracks for one top artist: up to 5 of its tracks, or nothing
\* when the fetch failed.
GenArtist(r) ==
    LET q == reqs[r]
        got == IF q.cA.st = "ok" /\ Len(world.artistTop) > 0
               THEN Take(world.artistTop, ArtistTopCap) ELSE <<>>
        q1 == [q EXCEPT !.cand = @ \o got]
    IN
    /\ q.kind = "generate" /\ q.pc = "g_artist"
    /\ CallFinished(q.cA)
    /\ reqs' = [reqs EXCEPT ![r] =
          IF q.gi < world.artists
          THEN [q1 EXCEPT !.gi = @ + 1, !.cA = NewCall(0, NoToken, FALSE)]
          ELSE StartSearch(q1)]
    /\ UNCHANGED <<users, playlists, clock, world, serial>>

\* One genre search answered; after the last one the candidates are
\* deduplicated, an empty pool answers 404, else audio features are fetched.
GenSearch(r) ==
    LET q == reqs[r]
        got == IF q.cA.st = "ok" THEN SearchItems(world, q.seeds[q.gi]) ELSE <<>>
        q1 == [q EXCEPT !.cand = @ \o got]
        pool == Dedupe(q1.cand)
    IN
    /\ q.kind = "generate" /\ q.pc = "g_search"
    /\ CallFinished(q.cA)
    /\ reqs' = [reqs EXCEPT ![r] =
          IF q.gi < Len(q.seeds)
          THEN [q1 EXCEPT !.gi = @ + 1, !.cA = NewCall(q.uid, q.uRef, FALSE)]
          ELSE IF Len(pool) = 0 THEN Respond([q1 EXCEPT !.cA = NoCall], 404)
          ELSE [q1 EXCEPT !.pool = pool, !.pc = "g_feat",
                          !.cA = NewCall(q.uid, q.uRef, FALSE)]]
    /\ UNCHANGED <<users, playlists, clock, world, serial>>

\* The audio-features fetch answered (a failure leaves featuresMap empty):
\* filter, fall back, sample, shape the draft; an authenticated user's draft
\* goes on to be saved, else the draft is the response.
GenFeatures(r) ==
    LET q == reqs[r]
        fids == IF q.cA.st = "ok" THEN FeaturesMap(q.pool, world.feat) ELSE {}
        filtered == FilterPool(q.pool, fids, world.feat, MoodTarget(q.mood))
        chosen == ChoosePool(filtered, q.pool)
    IN
    /\ q.kind = "generate" /\ q.pc = "g_feat"
    /\ CallFinished(q.cA)
    /\ \E sel \in Selections(chosen, q.count) :
          LET q1 == [q EXCEPT !.fids = fids, !.filtered = filtered, !.cA = NoCall,
                              !.draft = [id |-> clock, serial |-> 0, tracks |-> sel,
                                         status |-> "draft"]]
          IN reqs' = [reqs EXCEPT ![r] =
                 IF q.uFound THEN [q1 EXCEPT !.pc = "g_save"] ELSE Respond(q1, 200)]
    /\ UNCHANGED <<users, playlists, clock, world, serial>>

\* user.spotify.playlists.push(draft); user.save(): a $push, which increments
\* the version without testing it.
GenSave(r) ==
    LET q == reqs[r] IN
    /\ q.kind = "generate" /\ q.pc = "g_save"
    /\ \/ /\ serial < MaxDrafts /\ users[q.uid].v < MaxVersion
          /\ users' = [users EXCEPT
                 ![q.uid].drafts = Append(@, [q.draft EXCEPT !.serial = serial + 1]),
                 ![q.uid].v = @ + 1]
          /\ serial' = serial + 1
          /\ reqs' = [reqs EXCEPT ![r] =
                 Respond([q EXCEPT !.draft.serial = serial + 1], 200)]
       \/ /\ reqs' = [reqs EXCEPT ![r] = Respond(q, 500)]
          /\ UNCHANGED <<users, serial>>
    /\ UNCHANGED <<playlists, clock, world>>

---------------------------------------------------------------------------
(* controllers/playlists.ts: deleteTrackFromDraft *)

\* playlists.findIndex / find: the first draft with the id, 0 when none.
FindDraft(drafts, id) ==
    IF \E k \in 1..Len(drafts) : drafts[k].id = id
    THEN CHOOSE k \in 1..Len(drafts) :
            drafts[k].id = id /\ \A j \in 1..(k - 1) : drafts[j].id # id
    ELSE 0

\* draft.tracks.filter(t => t.id !== trackId)
WithoutTrack(tracks, trackId) ==
    LET Keep(t) == t # trackId IN SelectSeq(tracks, Keep)

\* User.findById, find the draft, filter its tracks in the loaded document.
DelLoad(r) ==
    /\ reqs[r].kind = "delete" /\ reqs[r].pc = "start"
    /\ LET q == LoadUser(reqs[r], reqs[r].uid)
           k == IF q.uFound THEN FindDraft(q.uDrafts, q.draftId) ELSE 0
       IN reqs' = [reqs EXCEPT ![r] =
              IF k = 0 THEN Respond(q, 404)
              ELSE [q EXCEPT !.pc = "d_save", !.idx = k,
                             !.newTracks = WithoutTrack(q.uDrafts[k].tracks, q.trackId)]]
    /\ UNCHANGED <<users, playlists, clock, world, serial>>

\* user.save(): nothing is sent when the tracks did not change; otherwise the
\* element's tracks are $set under the loaded version.
DelSave(r) ==
    LET q == reqs[r]
        u == q.uid
    IN
    /\ q.kind = "delete" /\ q.pc = "d_save"
    /\ \/ /\ q.newTracks = q.uDrafts[q.idx].tracks
          /\ reqs' = [reqs EXCEPT ![r] = Respond(q, 200)]
          /\ UNCHANGED users
       \/ /\ q.newTracks # q.uDrafts[q.idx].tracks
          /\ users[u].v = q.uV /\ users[u].v < MaxVersion
          /\ users' = [users EXCEPT ![u].drafts[q.idx].tracks = q.newTracks,
                                    ![u].v = @ + 1]
          /\ reqs' = [reqs EXCEPT ![r] = Respond(q, 200)]
       \/ /\ q.newTracks # q.uDrafts[q.idx].tracks
          /\ reqs' = [reqs EXCEPT ![r] = Respond(q, 500)]   \* VersionError, or the store fails
          /\ UNCHANGED users
    /\ UNCHANGED <<playlists, clock, world, serial>>

---------------------------------------------------------------------------
(* controllers/playlists.ts: pushDraftToSpotify *)

\* s with its k-th entry removed: splice(k - 1, 1).
RemoveAt(s, k) == SubSeq(s, 1, k - 1) \o SubSeq(s, k + 1, Len(s))

\* The next step of the add-tracks loop at offset i: another batch, or the
\* Playlist document is saved.
PushLoop(q, i) ==
    IF i < Len(q.uris)
    THEN [q EXCEPT !.i = i, !.pc = "p_add", !.cA = NewCall(q.uid, q.uRef, FALSE)]
    ELSE [q EXCEPT !.i = i, !.pc = "p_doc", !.cA = NoCall]

\* (mutant) the slice runs one entry into the next batch.
Batch_OneTooMany(uris, i) == Slice(uris, i, i + BatchSize + 1)

\* The URIs one add-tracks call carries: uris.slice(i, i + 100).
Batch(uris, i) == Slice(uris, i, i + BatchSize)

\* User.findById; 401 without an access token, 404 without the draft; else
\* the create-playlist request is sent.
PushLoad(r) ==
    /\ reqs[r].kind = "push" /\ reqs[r].pc = "start"
    /\ LET q == LoadUser(reqs[r], reqs[r].uid)
           k == FindDraft(q.uDrafts, q.draftId)
       IN reqs' = [reqs EXCEPT ![r] =
              IF ~q.uFound \/ ~q.uTok THEN Respond(q, 401)
              ELSE IF k = 0 THEN Respond(q, 404)
              ELSE [q EXCEPT !.pc = "p_create", !.idx = k, !.draft = q.uDrafts[k],
                             !.cA = NewCall(q.uid, q.uRef, FALSE)]]
    /\ UNCHANGED <<users, playlists, clock, world, serial>>

\* The create-playlist call ended: a failure answers 500, else the provider's
\* playlist id is taken (every id is written 1) and the add-tracks loop starts.
PushCreated(r) ==
    LET q == reqs[r] IN
    /\ q.kind = "push" /\ q.pc = "p_create"
    /\ CallFinished(q.cA)
    /\ reqs' = [reqs EXCEPT ![r] =
          IF q.cA.st = "err" THEN Respond(q, 500)
          ELSE PushLoop([q EXCEPT !.plId = 1, !.uris = q.draft.tracks], 0)]
    /\ UNCHANGED <<users, playlists, clock, world, serial>>

\* One add-tracks call ended: a failure answers 500, else the loop goes on.
PushAdded(r) ==
    LET q == reqs[r] IN
    /\ q.kind = "push" /\ q.pc = "p_add"
    /\ CallFinished(q.cA)
    /\ reqs' = [reqs EXCEPT ![r] =
          IF q.cA.st = "err" THEN Respond(q, 500)
          ELSE PushLoop([q EXCEPT !.batches = Append(@, Batch(q.uris, q.i))],
                        q.i + BatchSize)]
    /\ UNCHANGED <<users, playlists, clock, world, serial>>

\* (mutant) the draft is spliced out and saved before the record is.
PushDoc_RemoveFirst(r) ==
    LET q == reqs[r] IN
    /\ q.kind = "push" /\ q.pc = "p_doc"
    /\ users' = [users EXCEPT ![q.uid].drafts = RemoveAt(q.uDrafts, q.idx)]
    /\ \/ /\ Len(playlists) < MaxPublished
          /\ playlists' = Append(playlists,
                 [user |-> q.uid, spotifyPlaylistId |-> q.plId,
                  draft |-> q.draft.serial, tracks |-> q.draft.tracks])
          /\ reqs' = [reqs EXCEPT ![r].pc = "p_remove"]
       \/ /\ reqs' = [reqs EXCEPT ![r] = Respond(q, 500)]
          /\ UNCHANGED playlists
    /\ UNCHANGED <<clock, world, serial>>

\* playlistDoc.save(): the Published Playlist record is inserted, or the
\* save throws.
PushDoc(r) ==
    LET q == reqs[r] IN
    /\ q.kind = "push" /\ q.pc = "p_doc"
    /\ \/ /\ Len(playlists) < MaxPublished
          /\ playlists' = Append(playlists,
                 [user |-> q.uid, spotifyPlaylistId |-> q.plId,
                  draft |-> q.draft.serial, tracks |-> q.draft.tracks])
          /\ reqs' = [reqs EXCEPT ![r].pc = "p_remove"]
       \/ /\ reqs' = [reqs EXCEPT ![r] = Respond(q, 500)]
          /\ UNCHANGED playlists
    /\ UNCHANGED <<users, clock, world, serial>>

\* What the final save leaves in spotify.playlists: the loaded list without
\* the entry at draftIndex.
DraftsAfterPush(q) == RemoveAt(q.uDrafts, q.idx)

\* splice(draftIndex, 1); user.save(): the array is $set under the loaded
\* version, so a list changed since the load makes the save throw.
PushRemove(r) ==
    LET q == reqs[r]
        u == q.uid
    IN
    /\ q.kind = "push" /\ q.pc = "p_remove"
    /\ \/ /\ users[u].v = q.uV /\ users[u].v < MaxVersion
          /\ users' = [users EXCEPT ![u].drafts = DraftsAfterPush(q), ![u].v = @ + 1]
          /\ reqs' = [reqs EXCEPT ![r] = Respond(q, 200)]
       \/ /\ reqs' = [reqs EXCEPT ![r] = Respond(q, 500)]
          /\ UNCHANGED users
    /\ UNCHANGED <<playlists, clock, world, serial>>

---------------------------------------------------------------------------
(* Requests arriving, the clock, and the specification *)

TrackIds == 1..3
DraftIds == 0..MaxClock
Moods == {"", "chill"}
GenreLists == {<<>>, <<"pop">>}
Counts == {1, 2}

\* generatePlaylist's validation, before its first await: 400 without a mood
\* or a genre.
GenValidate(q) ==
    IF q.pc = "start" /\ (q.mood = "" \/ Len(q.genres) = 0) THEN Respond(q, 400) ELSE q

\* A request of kind k arrives in slot r, with or without a session token
\* (a valid token names an existing user).
StartRequest(r, k, moods, genreLists, counts) ==
    /\ reqs[r].kind = "idle"
    /\ \E auth \in {"none", "bad", "ok"}, u \in UserIds :
          /\ auth = "ok" => users[u].exists
          /\ auth # "ok" => u = 1
          /\ LET q == [IdleReq EXCEPT !.kind = k, !.auth = auth,
                                      !.uid = IF auth = "ok" THEN u ELSE 0]
             IN CASE k = "generate" ->
                       \E m \in moods, g \in genreLists, n \in counts :
                          reqs' = [reqs EXCEPT ![r] =
                              GenValidate(Arrive([q EXCEPT !.mood = m, !.genres = g,
                                                           !.count = n]))]
                  [] k = "delete" ->
                       \E d \in DraftIds, t \in TrackIds :
                          reqs' = [reqs EXCEPT ![r] =
                              Arrive([q EXCEPT !.draftId = d, !.trackId = t])]
                  [] k = "push" ->
                       \E d \in DraftIds :
                          reqs' = [reqs EXCEPT ![r] = Arrive([q EXCEPT !.draftId = d])]
                  [] OTHER -> reqs' = [reqs EXCEPT ![r] = Arrive(q)]
    /\ UNCHANGED <<users, playlists, clock, world, serial>>

\* The slot of an answered request (no call of it still in flight) is free
\* for the next request.
Recycle(r) ==
    /\ reqs[r].pc = "done"
    /\ \A s \in CallSlots : ~CallRunning(reqs[r][s])
    /\ reqs' = [reqs EXCEPT ![r] = IdleReq]
    /\ UNCHANGED <<users, playlists, clock, world, serial>>

\* Date.now() advances.
Tick ==
    /\ clock < MaxClock
    /\ clock' = clock + 1
    /\ UNCHANGED <<users, playlists, reqs, world, serial>>

CallStep(r) ==
    \E s \in CallSlots :
        \/ CallFirst(r, s)
        \/ CallRefresh(r, s)
        \/ CallPersist(r, s)
        \/ CallRetry(r, s)

SmallWorld ==
    World(<<1, 2>>, 1, <<2, 3>>, <<3, 1>>, <<>>,
          [t \in 1..3 |-> CASE t = 1 -> "calm" [] t = 2 -> "loud" [] OTHER -> "null"])

Draft(id, n, tracks) == [id |-> id, serial |-> n, tracks |-> tracks, status |-> "draft"]

\* A user who logged in through the callback, with the drafts generated since.
Connected(access, drafts) ==
    [NoUser EXCEPT !.exists = TRUE, !.access = access, !.refresh = 1,
                   !.drafts = drafts, !.v = Len(drafts), !.session = TRUE]

\* The store with user 1 as u1 and nobody else, no request in flight.
InitWith(u1, w) ==
    /\ reqs = [r \in Slots |-> IdleReq]
    /\ playlists = <<>>
    /\ world = w
    /\ users = [u \in UserIds |-> IF u = 1 THEN u1 ELSE NoUser]
    /\ clock = 1
    /\ serial = Len(u1.drafts)

PushSteps(r) ==
    \/ PushLoad(r) \/ PushCreated(r) \/ PushAdded(r) \/ PushDoc(r) \/ PushRemove(r)

GenSteps(r) ==
    \/ GenLoad(r) \/ GenAppToken(r) \/ GenPersonal(r) \/ GenArtist(r)
    \/ GenSearch(r) \/ GenFeatures(r) \/ GenSave(r)

---------------------------------------------------------------------------
(* Spec: the profile and publish handlers over the request wrapper, for a *)
(* connected user holding one draft.                                       *)

Init == InitWith(Connected(1, <<Draft(1, 1, <<1, 3>>)>>), SmallWorld)

Next ==
    \E r \in ReqIds :
        \/ \E k \in {"me", "push"} : StartRequest(r, k, Moods, GenreLists, Counts)
        \/ CallStep(r)
        \/ MeLoad(r) \/ MeDone(r)
        \/ PushSteps(r)
        \/ Recycle(r)

Spec == Init /\ [][Next]_vars

---------------------------------------------------------------------------
(* SpecConc: push requests of one user running concurrently.               *)

NextConc ==
    \E r \in ConcIds :
        \/ StartRequest(r, "push", Moods, GenreLists, Counts)
        \/ CallStep(r)
        \/ PushSteps(r)
        \/ Recycle(r)

SpecConc == Init /\ [][NextConc]_vars

---------------------------------------------------------------------------
(* SpecBatch: one push of a draft of any length up to MaxUris.             *)

InitBatch ==
    \E n \in 0..MaxUris :
        InitWith(Connected(1, <<Draft(1, 1, [k \in 1..n |-> k])>>), SmallWorld)

NextBatch ==
    \/ StartRequest(1, "push", Moods, GenreLists, Counts)
    \/ CallStep(1)
    \/ PushSteps(1)

SpecBatch == InitBatch /\ [][NextBatch]_vars

---------------------------------------------------------------------------
(* SpecGen: generate and delete requests, one after the other, of a user   *)
(* who starts without drafts, connected to the provider or not.            *)

InitGen ==
    \E access \in {NoToken, 1} : InitWith(Connected(access, <<>>), SmallWorld)

NextGen ==
    \/ \E k \in {"generate", "delete"} : StartRequest(1, k, Moods, GenreLists, Counts)
    \/ CallStep(1)
    \/ GenSteps(1)
    \/ DelLoad(1) \/ DelSave(1)
    \/ Recycle(1)

SpecGen == InitGen /\ [][NextGen]_vars

---------------------------------------------------------------------------
(* SpecPool: one generate request against a catalogue whose candidate pool *)
(* exceeds the audio-features cap.                                         *)

\* Top tracks 101..105, one top artist whose top track is 101, 50 search
\* results for each of two genres.  Track 1 has a record without a numeric
\* danceability, track 2 one within the "chill" ranges, track 3 a null entry,
\* every other track a record outside the "chill" ranges.
BigWorld ==
    World([k \in 1..5 |-> 100 + k], 1, <<101>>,
          [k \in 1..50 |-> k], [k \in 1..50 |-> 50 + k],
          [t \in 1..105 |-> CASE t = 1 -> "partial" [] t = 2 -> "calm"
                                   [] t = 3 -> "null" [] OTHER -> "loud"])

PoolMoods == {"chill", "happy"}
PoolGenreLists == {<<"pop", "Rock">>}
PoolCounts == {1}

InitPool ==
    \E access \in {NoToken, 1} : InitWith(Connected(access, <<>>), BigWorld)

NextPool ==
    \/ StartRequest(1, "generate", PoolMoods, PoolGenreLists, PoolCounts)
    \/ CallStep(1)
    \/ GenSteps(1)

SpecPool == InitPool /\ [][NextPool]_vars

---------------------------------------------------------------------------
(* SpecAuth: OAuth callbacks, profile requests (with their token refresh)  *)
(* and logouts running concurrently, starting from an empty collection.    *)

CallbackSteps(r) ==
    \/ CallbackToken(r) \/ CallbackProfile(r) \/ CallbackFind(r)
    \/ CallbackUpsert(r) \/ CallbackSession(r)

InitAuth == InitWith(NoUser, SmallWorld)

NextAuth ==
    \E r \in ConcIds :
        \/ \E k \in {"callback", "me", "logout"} :
              StartRequest(r, k, Moods, GenreLists, Counts)
        \/ CallStep(r)
        \/ CallbackSteps(r)
        \/ MeLoad(r) \/ MeDone(r)
        \/ LogoutLoad(r) \/ LogoutSave(r)
        \/ Recycle(r)

SpecAuth == InitAuth /\ [][NextAuth]_vars

---------------------------------------------------------------------------
(* SpecDedupe: one generate request whose genre search answers any list of *)
(* up to MaxCand items, ids repeated or missing (id 0).                    *)

CandidateLists == UNION {[1..k -> {0} \cup TrackIds] : k \in 0..MaxCand}

InitDedupe ==
    \E c \in CandidateLists :
        InitWith(Connected(NoToken, <<>>),
                 World(<<>>, 0, <<>>, c, <<>>, SmallWorld.feat))

NextDedupe ==
    \/ StartRequest(1, "generate", PoolMoods, GenreLists, PoolCounts)
    \/ CallStep(1)
    \/ GenLoad(1) \/ GenAppToken(1) \/ GenSearch(1) \/ GenFeatures(1) \/ GenSave(1)

SpecDedupe == InitDedupe /\ [][NextDedupe]_vars

---------------------------------------------------------------------------
(* SpecIds: generate requests of a connected user, one after the other,    *)
(* while the clock may or may not advance between them.                    *)

InitIds == InitWith(Connected(1, <<>>), SmallWorld)

NextIds ==
    \/ StartRequest(1, "generate", PoolMoods, GenreLists, PoolCounts)
    \/ CallStep(1)
    \/ GenLoad(1) \/ GenPersonal(1) \/ GenArtist(1)
    \/ GenSearch(1) \/ GenFeatures(1) \/ GenSave(1)
    \/ Recycle(1)
    \/ Tick

SpecIds == InitIds /\ [][NextIds]_vars

---------------------------------------------------------------------------
(* The upstream client's refresh-and-retry contract (Spec) *)

Calls == {reqs[r][s] : r \in Slots, s \in CallSlots}

\* C1: a call whose first attempt got 401, whose refresh issued a token and
\* whose retry succeeded returns the retry's response, and the user's stored
\* access token is the newly issued one (until another writer replaces it).
C1_RefreshRetrySucceeds ==
    \A c \in Calls :
        (c.st = "ok" /\ c.first = 401 /\ c.newTok # NoToken) =>
            /\ c.ret = 2 /\ c.attempts = 2 /\ c.refreshes = 1
            /\ c.wrote
            /\ c.stale \/ users[c.uid].access = c.newTok

C1_Witness ==
    \E c \in Calls :
        /\ ~c.inline /\ c.canRefresh
        /\ c.st = "ok" /\ c.first = 401 /\ c.ret = 2
        /\ c.newTok # NoToken /\ users[c.uid].access = c.newTok

\* C2: a call sends the original request at most twice and the refresh
\* exchange at most once; a 401 on the retry ends the call with that
\* authorization error, and a call that made its second attempt is over.
C2_AtMostOneRetry ==
    \A c \in Calls :
        /\ c.attempts <= 2 /\ c.refreshes <= 1
        /\ c.attempts = 2 => CallFinished(c)
        /\ c.second = 401 => (c.st = "err" /\ c.err = 401)

C2_Witness ==
    \E c \in Calls : c.second = 401 /\ c.st = "err" /\ c.attempts = 2 /\ c.refreshes = 1

\* C3: a first attempt failing with a status other than 401 ends the call
\* with that error: no refresh, no retry, nothing written to the credential.
C3_OtherFailurePropagates ==
    \A c \in Calls :
        (c.first # 0 /\ c.first # 200 /\ c.first # 401) =>
            /\ c.st = "err" /\ c.err = c.first
            /\ c.attempts = 1 /\ c.refreshes = 0 /\ ~c.wrote

C3_Witness ==
    \E c \in Calls : c.first = 500 /\ c.st = "err" /\ c.canRefresh

---------------------------------------------------------------------------
(* The publisher (Spec, SpecConc) *)

\* The Published Playlist records made from the draft of serial n.
RecordsOf(n) == {k \in 1..Len(playlists) : playlists[k].draft = n}

\* C4: each draft gives rise to at most one Published Playlist record, and
\* to exactly one when a push of it succeeded.
C4_OneRecordPerDraft ==
    /\ \A n \in 1..MaxDrafts : Cardinality(RecordsOf(n)) <= 1
    /\ \A r \in Slots :
          (reqs[r].kind = "push" /\ reqs[r].pc = "done" /\ reqs[r].status = 200) =>
              Cardinality(RecordsOf(reqs[r].draft.serial)) = 1

\* C5: no step of a push request other than its successful end changes any
\* user's draft list, so a push that fails leaves the list as it was.
C5_FailedPushKeepsDrafts ==
    [][\A r \in Slots :
          (/\ reqs'[r].kind = "push"
           /\ reqs'[r] # reqs[r]
           /\ ~(reqs'[r].pc = "done" /\ reqs'[r].status = 200))
          => \A u \in UserIds : users'[u].drafts = users[u].drafts]_vars

\* A push failed after the provider playlist and the record were made, and
\* the draft is still in the list.
C5_Witness ==
    \E r \in Slots :
        /\ reqs[r].kind = "push" /\ reqs[r].pc = "done" /\ reqs[r].status = 500
        /\ reqs[r].draft.serial # 0
        /\ RecordsOf(reqs[r].draft.serial) # {}
        /\ \E k \in 1..Len(users[reqs[r].uid].drafts) :
              users[reqs[r].uid].drafts[k] = reqs[r].draft

RECURSIVE Flatten(_)
Flatten(ss) == IF ss = <<>> THEN <<>> ELSE Head(ss) \o Flatten(Tail(ss))

\* C6: the add-tracks calls of a push carry the draft's URIs in order, at
\* most 100 each and exactly 100 in all but the last; once the loop is over
\* there have been ceil(n/100) of them and together they are the URI list.
C6_Batches ==
    \A r \in Slots :
        LET q == reqs[r]
            b == q.batches
            n == Len(q.uris)
        IN (q.kind = "push" /\ q.pc \in {"p_add", "p_doc", "p_remove"}) =>
              /\ \A k \in 1..Len(b) :
                    /\ Len(b[k]) <= 100
                    /\ k < Len(b) => Len(b[k]) = 100
              /\ Flatten(b) = Take(q.uris, q.i)
              /\ q.pc = "p_add" => q.i < n /\ Len(b) * 100 = q.i
              /\ q.pc \in {"p_doc", "p_remove"} =>
                    /\ Len(b) = (n + 99) \div 100
                    /\ Flatten(b) = q.uris
                    /\ q.uris = q.draft.tracks

C6_Witness ==
    \E r \in Slots :
        /\ reqs[r].kind = "push" /\ reqs[r].pc = "p_doc"
        /\ Len(reqs[r].uris) = 250
        /\ Len(reqs[r].batches) = 3
        /\ Len(reqs[r].batches[1]) = 100
        /\ Len(reqs[r].batches[2]) = 100
        /\ Len(reqs[r].batches[3]) = 50

---------------------------------------------------------------------------
(* Drafts and the generate pipeline (SpecGen, SpecPool) *)

NoDuplicates(tracks) ==
    \A i, j \in 1..Len(tracks) : tracks[i] = tracks[j] => i = j

\* C7: whatever generate and delete requests have run, no draft of any user
\* holds two tracks with the same id.
C7_NoDuplicateTracks ==
    \A u \in UserIds :
        \A k \in 1..Len(users[u].drafts) : NoDuplicates(users[u].drafts[k].tracks)

\* A draft of two tracks was generated from candidates with repeated ids, and
\* a delete request has taken one of them out.
C7_Witness ==
    \E r \in Slots :
        LET q == reqs[r]
            d == users[1].drafts
        IN /\ q.kind = "delete" /\ q.pc = "done" /\ q.status = 200
           /\ Len(d) >= 1
           /\ d[1].id = q.draftId /\ q.trackId # 0
           /\ Len(d[1].tracks) = 1 /\ ~InSeq(q.trackId, d[1].tracks)

\* Track t has an entry in the attribute map request q fetched.
HasData(q, t) == t \in q.fids

Filtered(r) == reqs[r].kind = "generate" /\ reqs[r].pc = "g_save"

\* C8 (as stated): a track without attribute data is in the filtered set
\* exactly when the mood has no constraints.
C8_MissingDataFailsUnderConstraints ==
    \A r \in Slots :
        Filtered(r) =>
            \A i \in 1..Len(reqs[r].pool) :
                LET t == reqs[r].pool[i] IN
                ~HasData(reqs[r], t) =>
                    (InSeq(t, reqs[r].filtered) <=> MoodTarget(reqs[r].mood) = {})

\* C8 (amended): a track without attribute data is in the filtered set whether
\* or not the mood has constraints; a track whose record lacks a number for a
\* constrained attribute is not.
C8_MissingDataPasses ==
    \A r \in Slots :
        Filtered(r) =>
            \A i \in 1..Len(reqs[r].pool) :
                LET q == reqs[r]
                    t == q.pool[i]
                IN /\ ~HasData(q, t) => InSeq(t, q.filtered)
                   /\ (/\ HasData(q, t)
                       /\ \E c \in MoodTarget(q.mood) :
                             Features(world.feat[t])[c.attr] = NotANumber)
                      => ~InSeq(t, q.filtered)

\* Under a mood with constraints and an answered attribute fetch, the pool
\* runs past the first 100: its 101st track and the null entry (track 3) are
\* kept without data, track 1 (no numeric danceability) and a track outside
\* the ranges are dropped.
C8_Witness ==
    \E r \in Slots :
        LET q == reqs[r] IN
        /\ Filtered(r)
        /\ MoodTarget(q.mood) # {}
        /\ q.fids # {}
        /\ Len(q.pool) > FeatureCap
        /\ ~HasData(q, q.pool[FeatureCap + 1]) /\ InSeq(q.pool[FeatureCap + 1], q.filtered)
        /\ InSeq(3, q.pool) /\ ~HasData(q, 3) /\ InSeq(3, q.filtered)
        /\ HasData(q, 1) /\ ~InSeq(1, q.filtered)
        /\ HasData(q, q.pool[1]) /\ ~InSeq(q.pool[1], q.filtered)

\* C9: when the top-tracks fetch succeeded and the top-artists fetch failed,
\* the user's top tracks are among the candidates as the request goes on.
C9_OnlyFailingFetchDropped ==
    \A r \in Slots :
        LET q == reqs[r] IN
        (/\ q.kind = "generate" /\ q.pc \in {"g_search", "g_feat"}
         /\ q.personal = <<"ok", "err">>)
        => \A i \in 1..Len(world.top) : InSeq(world.top[i], q.cand)

\* The pool the genre searches alone give for a request's genres.
SearchPool(w, genres) ==
    LET sd == SeedGenres(genres)
        items == [k \in 1..Len(sd) |-> SearchItems(w, sd[k])]
    IN Dedupe(Flatten(items))

\* C10: a generate request without a session token, with a mood and a genre
\* and a pool of at least count tracks, is answered 200 with a draft of
\* exactly count tracks in status "draft" that no user's draft list holds.
C10_UnauthenticatedDraft ==
    \A r \in Slots :
        LET q == reqs[r] IN
        (/\ q.kind = "generate" /\ q.pc = "done" /\ q.auth = "none"
         /\ q.mood # "" /\ Len(q.genres) > 0
         /\ Len(SearchPool(world, q.genres)) >= q.count)
        => /\ q.status = 200
           /\ Len(q.draft.tracks) = q.count
           /\ q.draft.status = "draft"
           /\ \A u \in UserIds : \A k \in 1..Len(users[u].drafts) :
                 users[u].drafts[k] # q.draft

---------------------------------------------------------------------------
(* Merging the candidates (SpecDedupe) *)

\* The position of the first occurrence of id x in the list s.
FirstAt(s, x) == CHOOSE i \in 1..Len(s) : s[i] = x /\ \A j \in 1..(i - 1) : s[j] # x

\* C12: the merged pool holds each track id of the candidate list exactly
\* once and nothing else, in the order of the ids' first occurrences.
C12_DedupeFirstOccurrence ==
    \A r \in Slots :
        LET q == reqs[r] IN
        (q.kind = "generate" /\ q.pc = "g_feat") =>
            /\ \A i \in 1..Len(q.cand) :
                  q.cand[i] # 0 =>
                      Cardinality({k \in 1..Len(q.pool) : q.pool[k] = q.cand[i]}) = 1
            /\ \A k \in 1..Len(q.pool) : q.pool[k] # 0 /\ InSeq(q.pool[k], q.cand)
            /\ \A k, l \in 1..Len(q.pool) :
                  k < l => FirstAt(q.cand, q.pool[k]) < FirstAt(q.cand, q.pool[l])

\* An id comes back after another one: 2, 1, 2, 3 merges to 2, 1, 3.
C12_Witness ==
    \E r \in Slots :
        /\ reqs[r].kind = "generate" /\ reqs[r].pc = "g_feat"
        /\ reqs[r].cand = <<2, 1, 2, 3>>
        /\ reqs[r].pool = <<2, 1, 3>>

\* C13: when the filter leaves nothing of a non-empty pool, the request goes
\* on to save a draft sampled from the unfiltered pool: min(count, pool size)
\* tracks, all of them tracks of the pool, so not an empty draft.
C13_FallbackToPool ==
    \A r \in Slots :
        LET q == reqs[r] IN
        (Filtered(r) /\ q.filtered = <<>> /\ Len(q.pool) > 0) =>
            /\ Len(q.draft.tracks) = Min(q.count, Len(q.pool))
            /\ Len(q.draft.tracks) > 0
            /\ \A k \in 1..Len(q.draft.tracks) : InSeq(q.draft.tracks[k], q.pool)

\* Under a mood with constraints every track of the pool has a record and
\* none is within the ranges; the draft holds a track all the same.
C13_Witness ==
    \E r \in Slots :
        LET q == reqs[r] IN
        /\ Filtered(r)
        /\ MoodTarget(q.mood) # {}
        /\ Len(q.pool) > 0 /\ \A k \in 1..Len(q.pool) : HasData(q, q.pool[k])
        /\ q.filtered = <<>>
        /\ Len(q.draft.tracks) = 1 /\ InSeq(q.draft.tracks[1], q.pool)

\* C14: no two drafts of a user's draft list have the same draft id.
C14_DraftIdsUnique ==
    \A u \in UserIds :
        \A k, l \in 1..Len(users[u].drafts) :
            users[u].drafts[k].id = users[u].drafts[l].id => k = l

---------------------------------------------------------------------------
(* The stored credential (SpecAuth) *)

\* C11: every user's provider credential is absent or a complete pair of
\* access token and refresh token.
C11_CredentialComplete ==
    \A u \in UserIds :
        users[u].exists =>
            (users[u].access = NoToken <=> users[u].refresh = NoToken)

====
